---- MODULE Spec2Model ----
(***************************************************************************)
(* Model of scripts/audit-knowledge-base.py: the loader, the seven checks  *)
(* and main, run over a knowledge base kept on disk.                       *)
(*                                                                         *)
(* A parsed JSON value is [kind, recs, nkeys]:                             *)
(*   kind = "list"      recs is the sequence of records, nkeys = 0         *)
(*   kind = "object"    a single object with nkeys keys, recs = << >>      *)
(*   kind = "malformed" the file is not JSON (json.load raises)            *)
(* A record is [id, fk]; each field is << >> when the key is absent and    *)
(* <<v>> when it is present.  fk is the foreign-key field the code reads   *)
(* in that document (company_id, position_id, associated_education_id);    *)
(* v = 0 stands for a falsy value ("" / null), v >= 1 for an id.           *)
(* The raw text of a file is the set of pattern families it matches.       *)
(***************************************************************************)
EXTENDS Integers, Sequences, FiniteSets, TLC

VARIABLES disk, walk, pc, files, content_map, results, report, exit_status,
          phase, emptied, prev

vars == <<disk, walk, pc, files, content_map, results, report, exit_status,
          phase, emptied, prev>>

----------------------------------------------------------------------------
(* Bounds *)

MaxId == 2
MaxLen == 1
MaxMissing == 2
MaxDeepLen == 3

----------------------------------------------------------------------------
(* Document ids *)

\* the manifest with one relationship document left out
expected_without_companies ==
  << "career/profile.json", "career/positions.json",
     "career/education.json", "career/skills.json", "career/certifications.json",
     "career/projects.json", "career/publications.json", "career/recommendations.json",
     "career/honors.json", "career/volunteering.json", "career/courses.json",
     "brand/identity.json", "brand/values.json", "brand/personality.json",
     "brand/communication-styles.json", "brand/brand-narratives.json",
     "strategy/job-search.json", "strategy/career-objectives.json",
     "strategy/audience-frameworks.json", "strategy/target-market.json",
     "agents/workflow-architecture.json", "agents/permissions-matrix.json",
     "agents/agent-definitions.json", "agents/quality-standards.json",
     "content/writing-formulas.json", "content/message-templates.json",
     "content/platform-constraints.json" >>

expected ==
  << "career/profile.json", "career/companies.json", "career/positions.json",
     "career/education.json", "career/skills.json", "career/certifications.json",
     "career/projects.json", "career/publications.json", "career/recommendations.json",
     "career/honors.json", "career/volunteering.json", "career/courses.json",
     "brand/identity.json", "brand/values.json", "brand/personality.json",
     "brand/communication-styles.json", "brand/brand-narratives.json",
     "strategy/job-search.json", "strategy/career-objectives.json",
     "strategy/audience-frameworks.json", "strategy/target-market.json",
     "agents/workflow-architecture.json", "agents/permissions-matrix.json",
     "agents/agent-definitions.json", "agents/quality-standards.json",
     "content/writing-formulas.json", "content/message-templates.json",
     "content/platform-constraints.json" >>

Range(s) == {s[i] : i \in DOMAIN s}

\* Every path of the modelled tree, in the order Python's sorted() gives strings.
SortedIds ==
  << "agents/agent-definitions.json", "agents/permissions-matrix.json",
     "agents/quality-standards.json", "agents/workflow-architecture.json",
     "brand/brand-narratives.json", "brand/communication-styles.json",
     "brand/identity.json", "brand/personality.json",
     "brand/values.json", "career/certifications.json",
     "career/companies.json", "career/courses.json",
     "career/education.json", "career/example.json",
     "career/honors.json", "career/positions.json",
     "career/profile.json", "career/projects.json",
     "career/publications.json", "career/recommendations.json",
     "career/skills.json", "career/volunteering.json",
     "content/message-templates.json", "content/platform-constraints.json",
     "content/writing-formulas.json", "strategy/audience-frameworks.json",
     "strategy/career-objectives.json", "strategy/job-search.json",
     "strategy/target-market.json" >>

\* os.path.relpath(fpath, KB): the directory part of a path.
DirOf(rel) ==
  CASE rel \in {"agents/agent-definitions.json", "agents/permissions-matrix.json",
                "agents/quality-standards.json", "agents/workflow-architecture.json"}
         -> "agents"
    [] rel \in {"brand/brand-narratives.json", "brand/communication-styles.json",
                "brand/identity.json", "brand/personality.json", "brand/values.json"}
         -> "brand"
    [] rel \in {"content/message-templates.json", "content/platform-constraints.json",
                "content/writing-formulas.json"}
         -> "content"
    [] rel \in {"strategy/audience-frameworks.json", "strategy/career-objectives.json",
                "strategy/job-search.json", "strategy/target-market.json"}
         -> "strategy"
    [] OTHER -> "career"

\* sorted(...) over a set of document ids
sorted(S) == LET keys == S IN SelectSeq(SortedIds, LAMBDA r : r \in keys)

RECURSIVE Concat(_)
Concat(ss) == IF ss = << >> THEN << >> ELSE Head(ss) \o Concat(Tail(ss))

Idx(n) == [i \in 1..n |-> i]

----------------------------------------------------------------------------
(* Parsed values *)

List(recs) == [kind |-> "list", recs |-> recs, nkeys |-> 0]
Object(n) == [kind |-> "object", recs |-> << >>, nkeys |-> n]
Malformed == [kind |-> "malformed", recs |-> << >>, nkeys |-> 0]

Rec(i, f) == [id |-> i, fk |-> f]

\* "id" in item
HasId(item) == item.id # << >>
\* item.get(field) is truthy
Truthy(f) == f # << >> /\ f[1] # 0

\* isinstance(data, list) / isinstance(data, dict)
IsList(data) == data.kind = "list"
IsDict(data) == data.kind = "object"
\* len(data)
len(data) == IF IsList(data) THEN Len(data.recs) ELSE data.nkeys

----------------------------------------------------------------------------
(* load_files, read_content *)

\* the filter of lines 16-17 and 29-30: *.json except example.json
Loadable(rel) == rel # "career/example.json"

\* keys of the dict in insertion order: directories as os.walk yields them,
\* file names sorted inside each directory
load_order(d, w) ==
  Concat([i \in 1..Len(w) |->
            sorted({r \in DOMAIN d : Loadable(r) /\ DirOf(r) = w[i]})])

\* json.load raises on some file
load_raises(d) == \E r \in DOMAIN d : Loadable(r) /\ d[r].parsed.kind = "malformed"

load_files(d, w) ==
  [keys |-> load_order(d, w),
   val  |-> [r \in {x \in DOMAIN d : Loadable(x)} |-> d[r].parsed]]

read_content(d) == [r \in {x \in DOMAIN d : Loadable(x)} |-> d[r].text]

NoFiles == [keys |-> << >>, val |-> [r \in {} |-> Malformed]]
NoContent == [r \in {} |-> {}]

\* rel in files
In(rel, fs) == rel \in DOMAIN fs.val

----------------------------------------------------------------------------
(* Report lines *)

Line(kind, rel, field, value) ==
  [kind |-> kind, rel |-> rel, field |-> field, value |-> value]

PassLine == Line("PASS", "", "", 0)

\* what a check prints: its [FAIL] lines, or one [PASS] line
Printed(lines) == IF lines = << >> THEN <<PassLine>> ELSE lines

----------------------------------------------------------------------------
(* Pattern checks: one [FAIL] line per document the pattern family matches, *)
(* documents in sorted order.                                               *)

pattern_lines(cm, family) ==
  LET hit == sorted({r \in DOMAIN cm : family \in cm[r]})
  IN  [i \in 1..Len(hit) |-> Line(family, hit[i], "", 0)]

check_privacy_terms(cm) ==
  LET lines == pattern_lines(cm, "privacy")
  IN  [clean |-> lines = << >>, lines |-> Printed(lines)]

check_pii(cm) ==
  LET lines == pattern_lines(cm, "pii")
  IN  [clean |-> lines = << >>, lines |-> Printed(lines)]

check_family_details(cm) ==
  LET lines == pattern_lines(cm, "family")
  IN  [clean |-> lines = << >>, lines |-> Printed(lines)]

check_secrets(cm) ==
  LET lines == pattern_lines(cm, "secret")
  IN  [clean |-> lines = << >>, lines |-> Printed(lines)]

----------------------------------------------------------------------------
(* check_xrefs *)

\* the three named relationships, in the order the code evaluates them;
\* label and shown are the words the diagnostic prints
Relations ==
  << [src |-> "career/positions.json", tgt |-> "career/companies.json",
      field |-> "company_id", label |-> "positions", shown |-> "company_id"],
     [src |-> "career/projects.json", tgt |-> "career/positions.json",
      field |-> "position_id", label |-> "projects", shown |-> "position_id"],
     [src |-> "career/courses.json", tgt |-> "career/education.json",
      field |-> "associated_education_id", label |-> "courses",
      shown |-> "education_id"] >>

\* the guard of lines 127, 133, 139
relation_evaluated(fs, R) == In(R.tgt, fs) /\ In(R.src, fs)

\* {c["id"] for c in data} raises: a record without "id" (KeyError), or a
\* non-empty single object, whose iteration yields its string keys (TypeError)
idset_raises(data) ==
  \/ IsList(data) /\ \E i \in 1..Len(data.recs) : ~HasId(data.recs[i])
  \/ IsDict(data) /\ data.nkeys > 0

idset(data) == {data.recs[i].id[1] : i \in {j \in 1..Len(data.recs) : HasId(data.recs[j])}}

\* for p in data: p.get(...) raises on the string keys of a non-empty object
source_raises(data) == IsDict(data) /\ data.nkeys > 0

relation_raises(fs, R) ==
  /\ relation_evaluated(fs, R)
  /\ \/ idset_raises(fs.val[R.tgt])
     \/ source_raises(fs.val[R.src])

relation_errors(fs, R) ==
  IF ~relation_evaluated(fs, R) THEN << >>
  ELSE LET ids  == idset(fs.val[R.tgt])
           recs == fs.val[R.src].recs
           bad  == SelectSeq(Idx(Len(recs)),
                             LAMBDA i : Truthy(recs[i].fk) /\ recs[i].fk[1] \notin ids)
       IN  [k \in 1..Len(bad) |-> Line("missing", R.label, R.shown, recs[bad[k]].fk[1])]

\* the test of line 146
scanned(data) == IsList(data) /\ Len(data.recs) > 0 /\ HasId(data.recs[1])

\* item["id"] of line 149 raises KeyError
scan_raises(data) == scanned(data) /\ \E i \in 1..Len(data.recs) : ~HasId(data.recs[i])

duplicate_errors(rel, data) ==
  IF ~scanned(data) THEN << >>
  ELSE LET recs == data.recs
           dup  == SelectSeq(Idx(Len(recs)),
                             LAMBDA i : /\ HasId(recs[i])
                                        /\ \E j \in 1..(i - 1) :
                                              HasId(recs[j]) /\ recs[j].id = recs[i].id)
       IN  [k \in 1..Len(dup) |-> Line("duplicate", rel, "id", recs[dup[k]].id[1])]

xrefs_errors(fs) ==
  Concat([i \in 1..Len(Relations) |-> relation_errors(fs, Relations[i])])
    \o Concat([i \in 1..Len(fs.keys) |-> duplicate_errors(fs.keys[i], fs.val[fs.keys[i]])])

xrefs_raises(fs) ==
  \/ \E i \in 1..Len(Relations) : relation_raises(fs, Relations[i])
  \/ \E r \in DOMAIN fs.val : scan_raises(fs.val[r])

\* raised: an exception leaves check_xrefs before it prints or returns
check_xrefs(fs) ==
  IF xrefs_raises(fs)
  THEN [raised |-> TRUE, clean |-> FALSE, lines |-> << >>]
  ELSE LET errors == xrefs_errors(fs)
       IN  [raised |-> FALSE, clean |-> Len(errors) = 0, lines |-> Printed(errors)]

----------------------------------------------------------------------------
(* check_completeness *)

\* the comprehension of line 177 starting one entry late
missing_files_skip_first(fs) == SelectSeq(Tail(expected), LAMBDA f : ~In(f, fs))

\* missing = [f for f in expected if f not in files]
missing_files(fs) == SelectSeq(expected, LAMBDA f : ~In(f, fs))

check_completeness(fs) ==
  LET missing == missing_files(fs)
  IN  [clean |-> Len(missing) = 0,
       lines |-> Printed([i \in 1..Len(missing) |-> Line("Missing", missing[i], "", 0)])]

----------------------------------------------------------------------------
(* check_data_quality *)

\* the check without its elif branch: an empty object goes unflagged
data_quality_line_lists_only(rel, data) ==
  IF IsList(data) /\ len(data) = 0 THEN <<Line("empty array", rel, "", 0)>> ELSE << >>

data_quality_line(rel, data) ==
  IF IsList(data) /\ len(data) = 0 THEN <<Line("empty array", rel, "", 0)>>
  ELSE IF IsDict(data) /\ len(data) = 0 THEN <<Line("empty object", rel, "", 0)>>
  ELSE << >>

check_data_quality(fs) ==
  LET keys  == sorted(DOMAIN fs.val)
      lines == Concat([i \in 1..Len(keys) |-> data_quality_line(keys[i], fs.val[keys[i]])])
  IN  [clean |-> lines = << >>, lines |-> Printed(lines)]

----------------------------------------------------------------------------
(* main: aggregation *)

\* any(results) in place of all(results)
any_result(rs) == \E i \in 1..Len(rs) : rs[i]

\* all(results)
all(rs) == \A i \in 1..Len(rs) : rs[i]

\* the summary and the RECORD COUNTS listing of lines 241-253
summary_lines(fs, rs) ==
  LET failed == Cardinality({i \in 1..Len(rs) : ~rs[i]})
      keys   == sorted(DOMAIN fs.val)
  IN  <<Line(IF all(rs) THEN "ALL CHECKS PASSED" ELSE "CHECK(S) FAILED", "", "", failed)>>
        \o [i \in 1..Len(keys) |->
              IF IsList(fs.val[keys[i]])
              THEN Line("records", keys[i], "", len(fs.val[keys[i]]))
              ELSE Line("single object", keys[i], "", 0)]

exit_code(rs) == IF all(rs) THEN 0 ELSE 1

----------------------------------------------------------------------------
(* The knowledge base on disk *)

Ids == 1..MaxId
IdFields == {<< >>} \cup {<<i>> : i \in Ids}
FkFields == {<< >>} \cup {<<v>> : v \in 0..MaxId}

Sources == {Relations[i].src : i \in 1..Len(Relations)}
Targets == {Relations[i].tgt : i \in 1..Len(Relations)}

\* the records a document may hold: only a source collection has the
\* foreign-key field the code reads
Records(rel) ==
  {Rec(i, f) : i \in IdFields, f \in IF rel \in Sources THEN FkFields ELSE {<< >>}}

Lists(S, n) == UNION {[1..k -> S] : k \in 0..n}

Values(rel, n) ==
  {List(r) : r \in Lists(Records(rel), n)} \cup {Object(0), Object(1), Malformed}

PatternFamilies == {"privacy", "pii", "family", "secret"}

File(parsed, text) == [parsed |-> parsed, text |-> text]

\* a knowledge base on which every check passes; example.json is the
\* template the loader leaves out
BaseParsed(rel) ==
  CASE rel \in {"career/companies.json", "career/education.json", "career/skills.json"}
         -> List(<<Rec(<<1>>, << >>)>>)
    [] rel \in Sources -> List(<<Rec(<<1>>, <<1>>)>>)
    [] rel = "career/example.json" -> List(<< >>)
    [] OTHER -> Object(1)

BaseDisk ==
  [rel \in Range(SortedIds) |->
     File(BaseParsed(rel), IF rel = "career/example.json" THEN {"pii"} ELSE {})]

\* the orders in which os.walk may yield the directories
WalkOrders ==
  { <<"agents", "brand", "career", "content", "strategy">>,
    <<"strategy", "content", "career", "brand", "agents">> }

RECURSIVE SubsetsUpTo(_, _)
SubsetsUpTo(S, k) ==
  IF k = 0 THEN {{}}
  ELSE LET P == SubsetsUpTo(S, k - 1) IN P \cup {s \cup {x} : s \in P, x \in S}

EditDocs == Sources \cup Targets \cup {"career/skills.json", "brand/values.json"}

\* one document replaced
Edited(n) ==
  UNION {{[BaseDisk EXCEPT ![rel].parsed = v] : v \in Values(rel, n)} : rel \in EditDocs}

\* up to MaxMissing files removed
Removed ==
  {[rel \in DOMAIN BaseDisk \ S |-> BaseDisk[rel]] :
     S \in SubsetsUpTo(DOMAIN BaseDisk, MaxMissing)}

\* one document whose text matches a pattern family
Tainted ==
  {[BaseDisk EXCEPT ![rel].text = {f}] : rel \in DOMAIN BaseDisk, f \in PatternFamilies}

\* two id-bearing collections replaced by longer lists
DeepEdited ==
  {[BaseDisk EXCEPT !["career/companies.json"].parsed = v,
                    !["brand/values.json"].parsed = w] :
     v \in Values("career/companies.json", MaxDeepLen),
     w \in Values("brand/values.json", MaxDeepLen)}

NoPrev == [pc |-> "none", results |-> << >>, report |-> << >>, exit_status |-> -1]

InitRun ==
  /\ pc = "load"
  /\ files = NoFiles
  /\ content_map = NoContent
  /\ results = << >>
  /\ report = << >>
  /\ exit_status = -1
  /\ phase = "first"
  /\ emptied = ""
  /\ prev = NoPrev

Init ==
  /\ disk \in Edited(MaxLen) \cup Removed \cup Tainted
  /\ walk \in WalkOrders
  /\ InitRun

InitXref ==
  /\ disk \in DeepEdited \cup Edited(MaxDeepLen - 1)
  /\ walk \in WalkOrders
  /\ InitRun

----------------------------------------------------------------------------
(* main, one action per step *)

LoadFiles ==
  /\ pc = "load"
  /\ IF load_raises(disk)
     THEN /\ pc' = "aborted"
          /\ UNCHANGED files
     ELSE /\ files' = load_files(disk, walk)
          /\ pc' = "read"
  /\ UNCHANGED <<disk, walk, content_map, results, report, exit_status, phase, emptied, prev>>

ReadContent ==
  /\ pc = "read"
  /\ content_map' = read_content(disk)
  /\ pc' = "privacy"
  /\ UNCHANGED <<disk, walk, files, results, report, exit_status, phase, emptied, prev>>

\* results.append(check(...)) together with what the check prints
Record(out, next) ==
  /\ results' = Append(results, out.clean)
  /\ report' = Append(report, out.lines)
  /\ pc' = next
  /\ UNCHANGED <<disk, walk, files, content_map, exit_status, phase, emptied, prev>>

CheckPrivacyTerms == pc = "privacy" /\ Record(check_privacy_terms(content_map), "pii")

CheckPii == pc = "pii" /\ Record(check_pii(content_map), "family")

CheckFamilyDetails == pc = "family" /\ Record(check_family_details(content_map), "secrets")

CheckSecrets == pc = "secrets" /\ Record(check_secrets(content_map), "xrefs")

\* check_xrefs popping the companies document out of the dict it is handed
CheckXrefs_consuming ==
  /\ pc = "xrefs"
  /\ LET out == check_xrefs(files)
     IN  /\ ~out.raised
         /\ results' = Append(results, out.clean)
         /\ report' = Append(report, out.lines)
         /\ files' = [keys |-> SelectSeq(files.keys, LAMBDA r : r # "career/companies.json"),
                      val  |-> [r \in DOMAIN files.val \ {"career/companies.json"} |->
                                  files.val[r]]]
         /\ pc' = "completeness"
         /\ UNCHANGED <<disk, walk, content_map, exit_status, phase, emptied, prev>>

CheckXrefs ==
  /\ pc = "xrefs"
  /\ LET out == check_xrefs(files)
     IN  IF out.raised
         THEN /\ pc' = "aborted"
              /\ UNCHANGED <<disk, walk, files, content_map, results, report,
                             exit_status, phase, emptied, prev>>
         ELSE Record(out, "completeness")

CheckCompleteness == pc = "completeness" /\ Record(check_completeness(files), "quality")

CheckDataQuality == pc = "quality" /\ Record(check_data_quality(files), "summary")

Summary ==
  /\ pc = "summary"
  /\ report' = Append(report, summary_lines(files, results))
  /\ exit_status' = exit_code(results)
  /\ pc' = "done"
  /\ UNCHANGED <<disk, walk, files, content_map, results, phase, emptied, prev>>

Restart ==
  /\ pc' = "load"
  /\ files' = NoFiles
  /\ content_map' = NoContent
  /\ results' = << >>
  /\ report' = << >>
  /\ exit_status' = -1
  /\ prev' = [pc |-> pc, results |-> results, report |-> report,
              exit_status |-> exit_status]

\* the audit is run again on the unmodified knowledge base
Rerun ==
  /\ pc = "done"
  /\ phase = "first"
  /\ phase' = "rerun"
  /\ Restart
  /\ UNCHANGED <<disk, walk, emptied>>

\* after a run that passed, one audited document is replaced by [] or {}
\* and the audit is run again
EmptyDocument ==
  /\ pc = "done"
  /\ phase = "first"
  /\ exit_status = 0
  /\ \E rel \in DOMAIN files.val, v \in {List(<< >>), Object(0)} :
        /\ disk' = [disk EXCEPT ![rel] = File(v, {})]
        /\ emptied' = rel
  /\ phase' = "emptied"
  /\ Restart
  /\ UNCHANGED walk

Next ==
  \/ LoadFiles
  \/ ReadContent
  \/ CheckPrivacyTerms
  \/ CheckPii
  \/ CheckFamilyDetails
  \/ CheckSecrets
  \/ CheckXrefs
  \/ CheckCompleteness
  \/ CheckDataQuality
  \/ Summary
  \/ Rerun
  \/ EmptyDocument

Spec == Init /\ [][Next]_vars

SpecXref == InitXref /\ [][Next]_vars

----------------------------------------------------------------------------
(* Vocabulary of the properties *)

CheckOrder == <<"privacy", "pii", "family", "secrets", "xrefs", "completeness", "quality">>

\* check_xrefs has been called in the current run (it returned or it raised)
XrefsActed == Len(results) >= 5 \/ (pc = "aborted" /\ Len(results) = 4)

\* the run is over: main returned, or an exception ended it
RunOver == pc \in {"done", "aborted"}

LinesOf(k) == Range(report[k])

Rank(rel) == CHOOSE i \in 1..Len(SortedIds) : SortedIds[i] = rel

\* the ids that two records of a collection share
DuplicatedIds(data) ==
  IF ~IsList(data) THEN {}
  ELSE {v \in Ids : \E i, j \in 1..Len(data.recs) :
                       i < j /\ data.recs[i].id = <<v>> /\ data.recs[j].id = <<v>>}

\* the ids of the records of a document of the corpus; none when it is absent
IdsIn(fs, rel) ==
  IF In(rel, fs) /\ IsList(fs.val[rel])
  THEN {v \in Ids : \E i \in 1..Len(fs.val[rel].recs) : fs.val[rel].recs[i].id = <<v>>}
  ELSE {}

\* the non-empty foreign keys of relationship R that resolve to no record
DanglingKeys(fs, R) ==
  IF In(R.src, fs) /\ IsList(fs.val[R.src])
  THEN {v \in Ids : /\ \E i \in 1..Len(fs.val[R.src].recs) : fs.val[R.src].recs[i].fk = <<v>>
                    /\ v \notin IdsIn(fs, R.tgt)}
  ELSE {}

\* the non-empty foreign keys the source collection of R carries
KeysOf(fs, R) ==
  IF In(R.src, fs) /\ IsList(fs.val[R.src])
  THEN {v \in Ids : \E i \in 1..Len(fs.val[R.src].recs) : fs.val[R.src].recs[i].fk = <<v>>}
  ELSE {}

RelationSet == Range(Relations)

----------------------------------------------------------------------------
\* C1: once check_xrefs has been called, for every collection of the corpus
\* and every id that two of its records share, check_xrefs has returned a
\* failing verdict and printed a duplicate-id diagnostic naming that document
\* and that id, wherever the records sit in the sequence.
C1_DuplicateIdReported ==
  XrefsActed =>
    \A rel \in DOMAIN files.val : \A v \in DuplicatedIds(files.val[rel]) :
       /\ Len(results) >= 5
       /\ ~results[5]
       /\ Line("duplicate", rel, "id", v) \in LinesOf(5)

\* C2: once check_xrefs has been called, for every named relationship and
\* every non-empty foreign-key value of a source record that is the id of no
\* record of the referenced collection, check_xrefs has returned a failing
\* verdict and printed a diagnostic naming that field and that value.
C2_DanglingKeyReported ==
  XrefsActed =>
    \A R \in RelationSet : \A v \in DanglingKeys(files, R) :
       /\ Len(results) >= 5
       /\ ~results[5]
       /\ \E l \in LinesOf(5) : l.field = R.field /\ l.value = v

\* C3: once check_completeness has run, its verdict is passing exactly when
\* no id of the 28-entry manifest is absent from the corpus, and its
\* diagnostics name exactly the absent manifest ids (so exactly d when d is
\* the one document removed).
C3_CompletenessNamesMissing ==
  Len(results) >= 6 =>
    LET absent == {d \in Range(expected) : ~In(d, files)}
    IN  /\ Cardinality(Range(expected)) = 28
        /\ results[6] = (absent = {})
        /\ {l.rel : l \in {x \in LinesOf(6) : x.kind = "Missing"}} = absent
        /\ \A l \in LinesOf(6) : l.kind = "Missing" \/ (absent = {} /\ l = PassLine)

C3_Witness ==
  /\ Len(results) >= 6
  /\ ~results[6]
  /\ \E d \in Range(expected) :
        /\ {x \in Range(expected) : ~In(x, files)} = {d}
        /\ LinesOf(6) = {Line("Missing", d, "", 0)}

\* C4 as stated: after one document of an all-pass corpus is replaced by []
\* or {}, the run ends with check_data_quality failing and each of the other
\* six checks passing.
C4_EmptyFailsOnlyQuality ==
  (phase = "emptied" /\ RunOver) =>
    /\ pc = "done"
    /\ ~results[7]
    /\ \A k \in 1..6 : results[k]

\* C4 amended: after one document of an all-pass corpus is replaced by [] or
\* {}, check_data_quality fails, the four pattern checks and
\* check_completeness pass, and check_xrefs fails exactly when the emptied
\* document is the referenced collection of a relationship whose source
\* collection carries a non-empty foreign key.
C4_EmptyFailsQualityAndDanglingXrefs ==
  (phase = "emptied" /\ RunOver) =>
    /\ pc = "done"
    /\ ~results[7]
    /\ \A k \in {1, 2, 3, 4, 6} : results[k]
    /\ results[5] = ~(\E R \in RelationSet : R.tgt = emptied /\ KeysOf(files, R) # {})

C4_Witness ==
  /\ phase = "emptied"
  /\ pc = "done"
  /\ emptied = "career/companies.json"
  /\ ~results[7]
  /\ ~results[5]

\* C5: when main returns, it has collected exactly seven verdicts, one per
\* check in call order, and its exit status is 0 if all seven are true and 1
\* otherwise.
C5_ExitStatusIsConjunction ==
  pc = "done" =>
    /\ Len(results) = 7
    /\ results = << check_privacy_terms(content_map).clean, check_pii(content_map).clean,
                    check_family_details(content_map).clean, check_secrets(content_map).clean,
                    check_xrefs(files).clean, check_completeness(files).clean,
                    check_data_quality(files).clean >>
    /\ exit_status \in {0, 1}
    /\ (exit_status = 0) = (\A k \in 1..7 : results[k])

C5_Witness ==
  /\ pc = "done"
  /\ exit_status = 1
  /\ Cardinality({k \in 1..7 : ~results[k]}) = 1

\* C6: once the corpus is loaded the run never stops early: the only abort is
\* a failed load, the checks run in the fixed order, and the summary is
\* reached only after all seven have returned.
C6_RunCompletes ==
  /\ pc = "aborted" => files = NoFiles
  /\ \A k \in 1..7 : pc = CheckOrder[k] => Len(results) = k - 1
  /\ pc \in {"summary", "done"} => Len(results) = 7

\* the five invariants of the data model, read off the loaded corpus
UniqueIds == \A rel \in DOMAIN files.val : DuplicatedIds(files.val[rel]) = {}
KeysResolve == \A R \in RelationSet : DanglingKeys(files, R) = {}
ManifestPresent == \A d \in Range(expected) : In(d, files)
NothingEmpty ==
  \A rel \in DOMAIN files.val :
     ~(IsList(files.val[rel]) /\ files.val[rel].recs = << >>)
       /\ ~(IsDict(files.val[rel]) /\ files.val[rel].nkeys = 0)
NoDisallowedText == \A rel \in DOMAIN content_map : content_map[rel] = {}

DataModelInvariants ==
  /\ files # NoFiles
  /\ content_map # NoContent
  /\ UniqueIds /\ KeysResolve /\ ManifestPresent /\ NothingEmpty /\ NoDisallowedText

\* C7: a run over a corpus that satisfies the five data-model invariants ends
\* with main returning exit status 0 and seven passing verdicts, and a second
\* run over the unmodified corpus prints the same report.
C7_InvariantCorpusPasses ==
  (DataModelInvariants /\ RunOver) =>
    /\ pc = "done"
    /\ exit_status = 0
    /\ Len(results) = 7
    /\ \A k \in 1..7 : results[k]
    /\ phase = "rerun" => (report = prev.report /\ exit_status = prev.exit_status)

\* the kinds of line that name a document of the corpus a check visited
DocumentKinds ==
  PatternFamilies \cup {"duplicate", "empty array", "empty object", "records", "single object"}

\* C8: within the output of every check, and in the record counts, the lines
\* that name a visited document appear in lexicographic order of document id,
\* whatever order the loader inserted the documents in.
C8_LexicographicReportOrder ==
  \A k \in 1..Len(report) : \A i, j \in 1..Len(report[k]) :
     (i < j /\ report[k][i].kind \in DocumentKinds /\ report[k][j].kind \in DocumentKinds)
       => Rank(report[k][i].rel) <= Rank(report[k][j].rel)

\* the k-th recorded verdict and diagnostics are those of out
Recorded(k, out) ==
  Len(results) >= k => (results[k] = out.clean /\ report[k] = out.lines)

C10_PassingRunEvaluatedAllRelationships ==
  /\ Len(results) >= 5 =>
       \A R \in RelationSet :
          IF In(R.src, files) /\ In(R.tgt, files)
          THEN \A v \in DanglingKeys(files, R) :
                  Line("missing", R.label, R.shown, v) \in LinesOf(5)
          ELSE \A l \in LinesOf(5) : ~(l.kind = "missing" /\ l.rel = R.label)
  /\ (pc = "done" /\ exit_status = 0) =>
       \A R \in RelationSet :
          In(R.src, files) /\ In(R.tgt, files) /\ DanglingKeys(files, R) = {}

C10_Witness ==
  /\ pc = "done"
  /\ exit_status = 0
  /\ \A R \in RelationSet : KeysOf(files, R) # {}

====
